---------------------------- MODULE Spec2Model ----------------------------
(***************************************************************************)
(* trezorCipherKeyValue: a pipeline filter that encrypts or decrypts a     *)
(* value with a Trezor device.  The repository holds three generations of  *)
(* main():                                                                 *)
(*   version 1  src/main.go           (trezor.New, no reset, no callbacks) *)
(*   version 2  src/unnamed/part_001  (cryptoWallet, simple askpass)       *)
(*   version 3  src/unnamed/part_002  (input first, PTY-relay askpass)     *)
(* One run of the program is one pass through main().  Byte strings are    *)
(* sequences of integers 0..255; text is the sequence of its ASCII codes.  *)
(***************************************************************************)
EXTENDS Integers, Sequences, FiniteSets

\* ------------------------------------------------------------------ bounds

\* longest input value, in bytes (17 crosses one 16-byte block boundary)
MaxLen == 17

\* how many secrets (PIN, then passphrase) the device may ask for in one run
MaxPrompts == 2

\* keystrokes that may arrive on the real standard input during the prompts
MaxKeys == 1

\* ------------------------------------------------------- program constants

\* the cipher block, in bytes ("An encrypted value is aligned to 16 bytes")
BlockBytes == 16

\* the modulus of the padding loop: 32 hex characters are one block
HexBlockChars == 32

\* os.Exit(usage()): syscall.EINVAL
EINVAL == 22

\* os.Exit(-1) as the parent process sees it
ExitMinusOne == 255

\* the exit status of a Go program that dies of an unrecovered panic
ExitPanic == 2

\* os.Exit(6): no askpass utility found
ExitNoAskpass == 6

\* os.Exit(1): no trezor devices found
ExitNoDevice == 1

\* os.Exit(2): cannot reset the device
ExitResetFailed == 2

\* os.Exit(3): the device operation failed
ExitDeviceError == 3

Versions == {1, 2, 3}

KeyNames == {"unnamed key", "myKey"}

\* "Reading the data from stdin.\n"
MsgReadingStdin ==
  <<
    82, 101, 97, 100, 105, 110, 103, 32, 116, 104, 101, 32, 100, 97, 116, 97,
    32, 102, 114, 111, 109, 32, 115, 116, 100, 105, 110, 46, 10
  >>

\* "Sent a request to a Trezor device (please confirm the operation if
\* required).\n"
MsgSentRequest ==
  <<
    83, 101, 110, 116, 32, 97, 32, 114, 101, 113, 117, 101, 115, 116, 32,
    116, 111, 32, 97, 32, 84, 114, 101, 122, 111, 114, 32, 100, 101, 118,
    105, 99, 101, 32, 40, 112, 108, 101, 97, 115, 101, 32, 99, 111, 110, 102,
    105, 114, 109, 32, 116, 104, 101, 32, 111, 112, 101, 114, 97, 116, 105,
    111, 110, 32, 105, 102, 32, 114, 101, 113, 117, 105, 114, 101, 100, 41,
    46, 10
  >>

\* "Setting Trezor device state to the initial state.\n"
MsgSettingState ==
  <<
    83, 101, 116, 116, 105, 110, 103, 32, 84, 114, 101, 122, 111, 114, 32,
    100, 101, 118, 105, 99, 101, 32, 115, 116, 97, 116, 101, 32, 116, 111,
    32, 116, 104, 101, 32, 105, 110, 105, 116, 105, 97, 108, 32, 115, 116,
    97, 116, 101, 46, 10
  >>

\* `Reading the data file "`
MsgReadingFilePrefix ==
  <<
    82, 101, 97, 100, 105, 110, 103, 32, 116, 104, 101, 32, 100, 97, 116, 97,
    32, 102, 105, 108, 101, 32, 34
  >>

\* `Running command "`
MsgRunningPrefix ==
  <<
    82, 117, 110, 110, 105, 110, 103, 32, 99, 111, 109, 109, 97, 110, 100,
    32, 34
  >>

\* `"` and the newline that end a formatted message
MsgQuoteNewline ==
  << 34, 10 >>

\* "/lib/cryptsetup/askpass"
cryptsetupAskpassPath ==
  <<
    47, 108, 105, 98, 47, 99, 114, 121, 112, 116, 115, 101, 116, 117, 112,
    47, 97, 115, 107, 112, 97, 115, 115
  >>

\* "systemd-ask-password"
systemdAskpassPath ==
  <<
    115, 121, 115, 116, 101, 109, 100, 45, 97, 115, 107, 45, 112, 97, 115,
    115, 119, 111, 114, 100
  >>

\* an askpass path given with -p: "/bin/ap"
CustomAskpassPath ==
  << 47, 98, 105, 110, 47, 97, 112 >>

\* the sentinel of --input-value-file: "-"
StdinSentinel ==
  << 45 >>

\* a file given with -i: "/tmp/v"
ValueFilePath ==
  << 47, 116, 109, 112, 47, 118 >>

\* the prompt titles the device library hands to the callback
TitlePIN ==
  << 80, 73, 78 >>

TitlePassphrase ==
  << 80, 97, 115, 115, 112, 104, 114, 97, 115, 101 >>

PromptTitle(n) ==
  IF n = 1 THEN TitlePIN ELSE TitlePassphrase

\* --------------------------------------------------------- pure functions

\* hex.EncodeToString's table "0123456789abcdef", as ASCII codes
hextable(n) ==
  IF n < 10 THEN 48 + n ELSE 87 + n

\* hex.EncodeToString: two characters per byte, high nibble first
EncodeToString(b) ==
  [i \in 1..(2 * Len(b)) |->
     IF i % 2 = 1 THEN hextable(b[(i + 1) \div 2] \div 16)
                  ELSE hextable(b[i \div 2] % 16)]

\* a padding loop that appends two zero bytes instead of the text "00"
RECURSIVE PadWithNul(_)
PadWithNul(s) ==
  IF Len(s) % HexBlockChars # 0 THEN PadWithNul(s \o << 0, 0 >>) ELSE s

\* a padding loop that stops at a multiple of 16 characters
RECURSIVE PadToHalfBlock(_)
PadToHalfBlock(s) ==
  IF Len(s) % BlockBytes # 0 THEN PadToHalfBlock(s \o << 48, 48 >>) ELSE s

\* for len(dataHexed)%32 != 0 { dataHexed += "00" }
RECURSIVE PadHex(_)
PadHex(s) ==
  IF Len(s) % HexBlockChars # 0 THEN PadHex(s \o << 48, 48 >>) ELSE s

\* the text the decrypt branch starts from: the hex encoding of the input, or
\* with --hex the input itself
DataHexed(hexFlagSet, bytes) ==
  IF ~hexFlagSet THEN EncodeToString(bytes) ELSE bytes

\* the value of one hex character, -1 when it is none (encoding/hex accepts
\* both cases)
FromHexChar(c) ==
  IF c >= 48 /\ c <= 57 THEN c - 48
  ELSE IF c >= 97 /\ c <= 102 THEN c - 87
  ELSE IF c >= 65 /\ c <= 70 THEN c - 55
  ELSE -1

IsHexText(s) ==
  /\ Len(s) % 2 = 0
  /\ \A i \in 1..Len(s) : FromHexChar(s[i]) >= 0

\* hex.DecodeString on a text that IsHexText
DecodeString(s) ==
  [i \in 1..(Len(s) \div 2) |->
     16 * FromHexChar(s[2 * i - 1]) + FromHexChar(s[2 * i])]

\* strings.TrimRight(s, cutset)
RECURSIVE TrimRight(_, _)
TrimRight(s, cutset) ==
  IF Len(s) > 0 /\ s[Len(s)] \in cutset
  THEN TrimRight(SubSeq(s, 1, Len(s) - 1), cutset)
  ELSE s

\* strings.TrimLeft(s, cutset)
RECURSIVE TrimLeft(_, _)
TrimLeft(s, cutset) ==
  IF Len(s) > 0 /\ s[1] \in cutset
  THEN TrimLeft(SubSeq(s, 2, Len(s)), cutset)
  ELSE s

\* strings.Trim(s, cutset): the cutset is removed at both ends
Trim(s, cutset) ==
  TrimLeft(TrimRight(s, cutset), cutset)

\* the cutset "\n\r" of the PTY-relay closure
NewlineAndReturn ==
  { 10, 13 }

\* ------------------------------------------------- the device (black box)

\* the derivation path main() hands to the device
DerivationPath(v) ==
  IF v = 1 THEN "m/71'/a6'/3'/45'/97'" ELSE "m/10019'/1'"

PathCode(p) ==
  IF p = "m/10019'/1'" THEN 29 ELSE 113

KeyCode(k) ==
  IF k = "myKey" THEN 201 ELSE 58

\* the deterministic test cipher: a keyed byte-wise bijection
Shift(p, k, i) ==
  (PathCode(p) + KeyCode(k) + 7 * i) % 256

\* the plaintext zero-padded to whole blocks, as the facade does on encrypt
FacadePad(value) ==
  [i \in 1..(BlockBytes * ((Len(value) + BlockBytes - 1) \div BlockBytes)) |->
     IF i <= Len(value) THEN value[i] ELSE 0]

DeviceEncrypt(p, k, value) ==
  LET padded == FacadePad(value)
  IN  [i \in 1..Len(padded) |-> (padded[i] + Shift(p, k, i)) % 256]

\* the facade reads the decrypt payload as hex text, then inverts the cipher
DeviceDecrypt(p, k, payload) ==
  LET raw == DecodeString(payload)
  IN  [i \in 1..Len(raw) |-> (raw[i] + 256 - Shift(p, k, i)) % 256]

\* whether the device can serve the payload at all
DeviceAccepts(isEncrypt, payload) ==
  isEncrypt \/ (IsHexText(payload) /\ Len(payload) % HexBlockChars = 0)

DeviceResult(p, isEncrypt, k, payload) ==
  IF isEncrypt THEN DeviceEncrypt(p, k, payload)
               ELSE DeviceDecrypt(p, k, payload)

\* ------------------------------------------------------------------ inputs

Alphabet ==
  << 97, 48, 0, 255, 10, 70 >>

\* one input value per length: "a", "a0", "a0\x00", ...
InputOfLen(n) ==
  [i \in 1..n |-> Alphabet[((i - 1) % Len(Alphabet)) + 1]]

\* short values, and values around one block
Inputs ==
  { InputOfLen(n) : n \in { m \in 0..MaxLen : m <= 4 \/ m >= BlockBytes - 1 } }

\* what the askpass program may write to its standard output before it
\* exits: "12", "12\n", "\n1\r\n", "1\n2"
AskOutputs ==
  { << 49, 50 >>, << 49, 50, 10 >>, << 10, 49, 13, 10 >>, << 49, 10, 50 >> }

\* ------------------------------------------------------------------- state

VARIABLES
  version,                  \* which generation of main() runs
  run,                      \* 1: a run of its own; 2: fed the first run's output
  helpFlag, encryptFlag, decryptFlag, hexFlag, verboseFlag,
  usePinentryFlag, dummyDeviceFlag,
  keyNameParameter, askpassPathParameter, inputValueFileParameter,
  envValue,                 \* TREZOR_CIPHER_VALUE
  srcContent,               \* what standard input, or the named file, holds
  deviceAsks,               \* how many secrets the device is set to ask for
  termMode,                 \* the mode of the real terminal
  pc,                       \* main()'s position
  trace,                    \* the steps main() has taken, in order
  data, result,             \* main()'s locals
  stdout, stderr,           \* the bytes written to standard output; the
                            \* kinds of message written to standard error
  exitCode, outcome,
  backend, confirmInstalled,\* the callbacks installed in the wallet
  resetCount, resetOk,
  cipherCalls, devOp, devPayload,
  padApplied, hexOutApplied,
  inputValue, firstInput,   \* the value acquired; the first run's value
  prompts, cbpc, cbFailed, confirmAsked,
  savedState, rawMade,      \* oldStdinState and whether MakeRaw succeeded
  entryMode,                \* the terminal mode when the callback was entered
  ptmxOpen, relays,         \* open pseudo-terminals; live relay goroutines
  askOut,                   \* what the askpass program writes before it exits
  copied,                   \* how much of it os/exec's copying goroutine has
                            \* stored in the closure's result buffer
  secret, cbResult,         \* what the last get-pin callback returned
  stdinAtEOF, keysLeft, delivered, dropped,
  stolen                    \* keystrokes dropped while a prompt was open

flagVars ==
  << version, helpFlag, encryptFlag, decryptFlag, hexFlag, verboseFlag,
     usePinentryFlag, dummyDeviceFlag, keyNameParameter,
     askpassPathParameter, inputValueFileParameter, envValue, srcContent,
     deviceAsks >>

mainVars ==
  << pc, trace, data, result, stdout, stderr, exitCode, outcome >>

walletVars ==
  << backend, confirmInstalled, resetCount, resetOk, cipherCalls, devOp,
     devPayload >>

ghostVars ==
  << run, padApplied, hexOutApplied, inputValue, firstInput >>

promptVars ==
  << prompts, cbpc, cbFailed, confirmAsked, savedState, rawMade, entryMode,
     ptmxOpen, relays, termMode, askOut, copied, secret, cbResult >>

secretVars ==
  << askOut, copied, secret, cbResult >>

stdinVars ==
  << stdinAtEOF, keysLeft, delivered, dropped, stolen >>

vars ==
  << flagVars, mainVars, walletVars, ghostVars, promptVars, stdinVars >>

\* ------------------------------------------------------- the order of main

\* version 3 with the input read after the reset, as version 2 has it
OrderInputAfterReset(v) ==
  IF v = 1 THEN
    << "SelectMode", "NewTrezor", "ReadInput", "Pad", "Cipher", "Encode",
       "Write" >>
  ELSE IF v = 2 THEN
    << "SelectMode", "FindWallet", "InstallCallbacks", "Reset", "ReadInput",
       "Pad", "Cipher", "Encode", "Write" >>
  ELSE
    << "SelectMode", "DiscoverAskpass", "FindWallet", "InstallCallbacks",
       "Reset", "ReadInput", "Pad", "Cipher", "Encode", "Write" >>

\* the statements of main(), top to bottom
Order(v) ==
  IF v = 1 THEN
    << "SelectMode", "NewTrezor", "ReadInput", "Pad", "Cipher", "Encode",
       "Write" >>
  ELSE IF v = 2 THEN
    << "SelectMode", "FindWallet", "InstallCallbacks", "Reset", "ReadInput",
       "Pad", "Cipher", "Encode", "Write" >>
  ELSE
    << "SelectMode", "DiscoverAskpass", "ReadInput", "FindWallet",
       "InstallCallbacks", "Reset", "Pad", "Cipher", "Encode", "Write" >>

\* the statement after step s
After(v, s) ==
  LET o == Order(v)
      i == CHOOSE j \in 1..Len(o) : o[j] = s
  IN  IF i < Len(o) THEN o[i + 1] ELSE "exited"

\* a progress message: versions 1 and 2 print it on standard output
Say(out, bytes) ==
  IF verboseFlag /\ version < 3 THEN out \o bytes ELSE out

\* a progress message: version 3 prints it on standard error
Note(err, tag) ==
  IF verboseFlag /\ version = 3 THEN err \cup {tag} ELSE err

\* ------------------------------------------------------------------- Init

InitRun ==
  /\ pc = "SelectMode"
  /\ trace = << >>
  /\ data = << >>
  /\ result = << >>
  /\ stdout = << >>
  /\ stderr = {}
  /\ exitCode = -1
  /\ outcome = "running"
  /\ backend = "none"
  /\ confirmInstalled = FALSE
  /\ resetCount = 0
  /\ resetOk = FALSE
  /\ cipherCalls = 0
  /\ devOp = "none"
  /\ devPayload = << >>
  /\ padApplied = FALSE
  /\ hexOutApplied = FALSE
  /\ inputValue = << >>
  /\ prompts = 0
  /\ cbpc = "idle"
  /\ cbFailed = FALSE
  /\ confirmAsked = FALSE
  /\ savedState = "none"
  /\ rawMade = FALSE
  /\ ptmxOpen = {}
  /\ relays = {}
  /\ askOut = << >>
  /\ copied = 0
  /\ secret = << >>
  /\ cbResult = "none"
  /\ stdinAtEOF = FALSE
  /\ keysLeft = MaxKeys
  /\ delivered = 0
  /\ dropped = 0
  /\ stolen = 0

Init ==
  /\ run = 1
  /\ firstInput = << >>
  /\ version \in Versions
  /\ helpFlag \in BOOLEAN
  /\ encryptFlag \in BOOLEAN
  /\ decryptFlag \in BOOLEAN
  /\ hexFlag \in BOOLEAN
  /\ verboseFlag \in BOOLEAN
  /\ keyNameParameter \in KeyNames
  /\ usePinentryFlag \in (IF version = 1 THEN {FALSE} ELSE BOOLEAN)
  /\ dummyDeviceFlag \in (IF version = 3 THEN BOOLEAN ELSE {FALSE})
  /\ askpassPathParameter \in
       (IF version = 1 THEN {<< >>}
        ELSE IF version = 2 THEN {cryptsetupAskpassPath, CustomAskpassPath}
        ELSE {<< >>, CustomAskpassPath})
  /\ deviceAsks \in (IF version = 1 THEN {0} ELSE 0..MaxPrompts)
  /\ \E content \in Inputs, source \in {"env", "stdin", "file"} :
       /\ version = 1 => source = "stdin"
       /\ deviceAsks > 0 =>
            /\ content = InputOfLen(3)
            /\ keyNameParameter = "unnamed key"
       /\ envValue = (IF source = "env" THEN content ELSE << >>)
       /\ srcContent = (IF source = "env" THEN << >> ELSE content)
       /\ inputValueFileParameter =
            (IF source = "file" THEN ValueFilePath ELSE StdinSentinel)
  /\ helpFlag =>
       /\ ~encryptFlag /\ ~decryptFlag /\ ~hexFlag /\ ~verboseFlag
       /\ ~usePinentryFlag /\ ~dummyDeviceFlag /\ deviceAsks = 0
       /\ keyNameParameter = "unnamed key"
       /\ envValue = << >> /\ srcContent = << >>
       /\ inputValueFileParameter = StdinSentinel
       /\ askpassPathParameter \in {<< >>, cryptsetupAskpassPath}
  /\ termMode \in
       (IF version = 3 /\ ~usePinentryFlag THEN {"cooked", "cbreak"}
        ELSE {"cooked"})
  /\ entryMode = termMode
  /\ InitRun

\* ------------------------------------------------------- the steps of main

\* if *helpFlag ...; if !*encryptFlag && !*decryptFlag ...
SelectMode ==
  /\ pc = "SelectMode"
  /\ trace' = Append(trace, "SelectMode")
  /\ IF helpFlag THEN
       /\ pc' = "exited"
       /\ exitCode' = (IF version = 1 THEN EINVAL ELSE 0)
       /\ outcome' = "help"
       /\ stderr' = stderr \cup {"usage"}
     ELSE IF ~encryptFlag /\ ~decryptFlag THEN
       /\ pc' = "exited"
       /\ exitCode' = EINVAL
       /\ outcome' = "usage"
       /\ stderr' = stderr \cup {"modeRequired", "usage"}
     ELSE
       /\ pc' = After(version, "SelectMode")
       /\ UNCHANGED << exitCode, outcome, stderr >>
  /\ UNCHANGED << data, result, stdout >>
  /\ UNCHANGED << flagVars, walletVars, ghostVars, promptVars, stdinVars >>

\* trezorInstance := trezor.New()
NewTrezor ==
  /\ pc = "NewTrezor"
  /\ trace' = Append(trace, "NewTrezor")
  /\ pc' = After(version, "NewTrezor")
  /\ UNCHANGED << data, result, stdout, stderr, exitCode, outcome >>
  /\ UNCHANGED << flagVars, walletVars, ghostVars, promptVars, stdinVars >>

\* if *askpassPathParameter == "" { switch { ... default: os.Exit(6) } }
DiscoverAskpass ==
  /\ pc = "DiscoverAskpass"
  /\ trace' = Append(trace, "DiscoverAskpass")
  /\ \E cryptsetupExists \in BOOLEAN, systemdExists \in BOOLEAN :
       IF askpassPathParameter # << >> THEN
         /\ pc' = After(version, "DiscoverAskpass")
         /\ UNCHANGED << askpassPathParameter, stderr, exitCode, outcome >>
       ELSE IF cryptsetupExists THEN
         /\ askpassPathParameter' = cryptsetupAskpassPath
         /\ pc' = After(version, "DiscoverAskpass")
         /\ UNCHANGED << stderr, exitCode, outcome >>
       ELSE IF systemdExists THEN
         /\ askpassPathParameter' = systemdAskpassPath
         /\ pc' = After(version, "DiscoverAskpass")
         /\ UNCHANGED << stderr, exitCode, outcome >>
       ELSE
         /\ pc' = "exited"
         /\ exitCode' = ExitNoAskpass
         /\ outcome' = "noAskpass"
         /\ stderr' = stderr \cup {"noAskpass"}
         /\ UNCHANGED askpassPathParameter
  /\ UNCHANGED << data, result, stdout >>
  /\ UNCHANGED << version, helpFlag, encryptFlag, decryptFlag, hexFlag,
                  verboseFlag, usePinentryFlag, dummyDeviceFlag,
                  keyNameParameter, inputValueFileParameter, envValue,
                  srcContent, deviceAsks >>
  /\ UNCHANGED << walletVars, ghostVars, promptVars, stdinVars >>

\* data := []byte(os.Getenv(...)); if len(data) == 0 { ReadAll / ReadFile }
\* (version 1 reads standard input only)
ReadInput ==
  /\ pc = "ReadInput"
  /\ trace' = Append(trace, "ReadInput")
  /\ IF version # 1 /\ Len(envValue) # 0 THEN
       /\ data' = envValue
       /\ inputValue' = envValue
       /\ pc' = After(version, "ReadInput")
       /\ UNCHANGED << stdout, stderr, exitCode, outcome, stdinAtEOF >>
     ELSE
       \E readOk \in BOOLEAN :
         /\ stdout' =
              (IF inputValueFileParameter = StdinSentinel
               THEN Say(stdout, MsgReadingStdin)
               ELSE Say(stdout, MsgReadingFilePrefix
                                  \o inputValueFileParameter
                                  \o MsgQuoteNewline))
         /\ IF readOk THEN
              /\ data' = srcContent
              /\ inputValue' = srcContent
              /\ pc' = After(version, "ReadInput")
              /\ stderr' = Note(stderr, "reading")
              /\ stdinAtEOF' = (inputValueFileParameter = StdinSentinel)
              /\ UNCHANGED << exitCode, outcome >>
            ELSE
              /\ pc' = "exited"
              /\ exitCode' = ExitMinusOne
              /\ outcome' = "readError"
              /\ stderr' = Note(stderr, "reading") \cup {"gotError"}
              /\ UNCHANGED << data, inputValue, stdinAtEOF >>
  /\ UNCHANGED << result, run, padApplied, hexOutApplied, firstInput >>
  /\ UNCHANGED << keysLeft, delivered, dropped, stolen >>
  /\ UNCHANGED << flagVars, walletVars, promptVars >>

\* cryptoWallet.FindAny() / NewDummy(), and the type assertion to a Trezor
FindWallet ==
  /\ pc = "FindWallet"
  /\ trace' = Append(trace, "FindWallet")
  /\ \E found \in BOOLEAN :
       IF found \/ dummyDeviceFlag THEN
         /\ pc' = After(version, "FindWallet")
         /\ UNCHANGED << stderr, exitCode, outcome >>
       ELSE
         /\ pc' = "exited"
         /\ exitCode' = (IF version = 2 THEN ExitPanic ELSE ExitNoDevice)
         /\ outcome' = "noDevice"
         /\ stderr' = stderr \cup {"noDevice"}
  /\ UNCHANGED << data, result, stdout >>
  /\ UNCHANGED << flagVars, walletVars, ghostVars, promptVars, stdinVars >>

\* SetGetPinFunc(...) in either branch of *usePinentryFlag; SetGetConfirmFunc
InstallCallbacks ==
  /\ pc = "InstallCallbacks"
  /\ trace' = Append(trace, "InstallCallbacks")
  /\ backend' = (IF usePinentryFlag THEN "pinentry"
                 ELSE IF version = 2 THEN "askpass" ELSE "pty")
  /\ confirmInstalled' = TRUE
  /\ pc' = After(version, "InstallCallbacks")
  /\ UNCHANGED << data, result, stdout, stderr, exitCode, outcome >>
  /\ UNCHANGED << resetCount, resetOk, cipherCalls, devOp, devPayload >>
  /\ UNCHANGED << flagVars, ghostVars, promptVars, stdinVars >>

\* err := wallet.Reset(); if err != nil { panic / os.Exit(2) }
Reset ==
  /\ pc = "Reset"
  /\ trace' = Append(trace, "Reset")
  /\ resetCount' = resetCount + 1
  /\ stdout' = Say(stdout, MsgSettingState)
  /\ \E ok \in BOOLEAN :
       /\ resetOk' = ok
       /\ IF ok THEN
            /\ pc' = After(version, "Reset")
            /\ stderr' = Note(stderr, "setting")
            /\ UNCHANGED << exitCode, outcome >>
          ELSE
            /\ pc' = "exited"
            /\ exitCode' = (IF version = 2 THEN ExitPanic ELSE ExitResetFailed)
            /\ outcome' = "resetFailed"
            /\ stderr' = Note(stderr, "setting") \cup {"cannotReset"}
  /\ UNCHANGED << data, result >>
  /\ UNCHANGED << backend, confirmInstalled, cipherCalls, devOp, devPayload >>
  /\ UNCHANGED << flagVars, ghostVars, promptVars, stdinVars >>

\* if *decryptFlag { dataHexed ...; panic if odd; pad; data = []byte(dataHexed) }
Pad ==
  /\ pc = "Pad"
  /\ trace' = Append(trace, "Pad")
  /\ IF decryptFlag THEN
       LET dataHexed == DataHexed(hexFlag, data)
       IN  IF Len(dataHexed) % 2 # 0 THEN
             /\ pc' = "exited"
             /\ exitCode' = ExitPanic
             /\ outcome' = "oddHex"
             /\ stderr' = stderr \cup {"panicOddHex"}
             /\ UNCHANGED << data, padApplied >>
           ELSE
             /\ data' = PadHex(dataHexed)
             /\ padApplied' = TRUE
             /\ pc' = After(version, "Pad")
             /\ UNCHANGED << stderr, exitCode, outcome >>
     ELSE
       /\ pc' = After(version, "Pad")
       /\ UNCHANGED << data, padApplied, stderr, exitCode, outcome >>
  /\ UNCHANGED << result, stdout, run, hexOutApplied, inputValue, firstInput >>
  /\ UNCHANGED << flagVars, walletVars, promptVars, stdinVars >>

\* "Sent a request ..."; then CipherKeyValue / EncryptKey / DecryptKey is called
\* with data as its payload
Cipher ==
  /\ pc = "Cipher"
  /\ trace' = Append(trace, "Cipher")
  /\ stdout' = Say(stdout, MsgSentRequest)
  /\ stderr' = Note(stderr, "sentRequest")
  /\ cipherCalls' = cipherCalls + 1
  /\ devOp' = (IF encryptFlag THEN "encrypt" ELSE "decrypt")
  /\ devPayload' = data
  /\ pc' = "InDevice"
  /\ UNCHANGED << data, result, exitCode, outcome >>
  /\ UNCHANGED << backend, confirmInstalled, resetCount, resetOk >>
  /\ UNCHANGED << flagVars, ghostVars, promptVars, stdinVars >>

\* ------------------------------------------------ the callbacks of the wallet

\* the deferred terminal.Restore left out
RestoreForgotten(mode, made, saved) ==
  mode

\* defer func() { _ = terminal.Restore(fd, oldStdinState) }(), registered only
\* when MakeRaw succeeded
DeferredRestore(mode, made, saved) ==
  IF made THEN saved ELSE mode

\* the device asks for a secret: the get-pin callback runs.  The pinentry
\* closure (p.GetPin()) and the simple askpass closure (return cmd.Output():
\* the program's whole output, as it is) run to their end; the PTY-relay
\* closure is entered and goes on step by step.
AskSecret ==
  /\ pc = "InDevice"
  /\ cbpc = "idle"
  /\ ~cbFailed
  /\ backend # "none"
  /\ prompts < deviceAsks
  /\ prompts' = prompts + 1
  /\ entryMode' = termMode
  /\ IF backend = "pty" THEN
       /\ cbpc' = "ptyStart"
       /\ stderr' = Note(stderr, "running")
       /\ askOut' = << >>
       /\ copied' = 0
       /\ secret' = << >>
       /\ cbResult' = "running"
       /\ UNCHANGED << stdout, cbFailed >>
     ELSE
       \E ok \in BOOLEAN, out \in AskOutputs :
         /\ cbpc' = "idle"
         /\ cbFailed' = ~ok
         /\ askOut' = out
         /\ copied' = Len(out)
         /\ secret' = (IF ok THEN out ELSE << >>)
         /\ cbResult' = (IF ok THEN "ok" ELSE "err")
         /\ stdout' =
              (IF backend = "askpass"
               THEN Say(stdout, MsgRunningPrefix \o askpassPathParameter
                                  \o << 32 >> \o PromptTitle(prompts + 1)
                                  \o MsgQuoteNewline)
               ELSE stdout)
         /\ UNCHANGED stderr
  /\ UNCHANGED << confirmAsked, savedState, rawMade, ptmxOpen, relays,
                  termMode >>
  /\ UNCHANGED << pc, trace, data, result, exitCode, outcome >>
  /\ UNCHANGED << flagVars, walletVars, ghostVars, stdinVars >>

\* cmd.Stdout = &result; ptmx, err := pty.Start(cmd); if err != nil { return
\* nil, err }.  cmd.Start() gives the program a pipe as its standard output
\* and starts a goroutine that copies the pipe into the result buffer.
PtyStart ==
  /\ cbpc = "ptyStart"
  /\ \E ok \in BOOLEAN, out \in AskOutputs :
       IF ok THEN
         /\ ptmxOpen' = ptmxOpen \cup {prompts}
         /\ cbpc' = "makeRaw"
         /\ askOut' = out
         /\ UNCHANGED << cbFailed, cbResult >>
       ELSE
         /\ cbpc' = "idle"
         /\ cbFailed' = TRUE
         /\ cbResult' = "err"
         /\ UNCHANGED << ptmxOpen, askOut >>
  /\ UNCHANGED << prompts, confirmAsked, savedState, rawMade, entryMode,
                  relays, termMode, copied, secret >>
  /\ UNCHANGED << flagVars, mainVars, walletVars, ghostVars, stdinVars >>

\* oldStdinState, err := terminal.MakeRaw(fd); on success the restore is
\* deferred, on failure a warning is printed and the callback goes on
MakeRaw ==
  /\ cbpc = "makeRaw"
  /\ \E ok \in BOOLEAN :
       IF ok THEN
         /\ savedState' = termMode
         /\ termMode' = "raw"
         /\ rawMade' = TRUE
         /\ UNCHANGED stderr
       ELSE
         /\ stderr' = stderr \cup {"stdinClosed"}
         /\ rawMade' = FALSE
         /\ UNCHANGED << savedState, termMode >>
  /\ cbpc' = "goRelay"
  /\ UNCHANGED << prompts, cbFailed, confirmAsked, entryMode, ptmxOpen,
                  relays, secretVars >>
  /\ UNCHANGED << pc, trace, data, result, stdout, exitCode, outcome >>
  /\ UNCHANGED << flagVars, walletVars, ghostVars, stdinVars >>

\* go io.Copy(ptmx, os.Stdin)
GoRelay ==
  /\ cbpc = "goRelay"
  /\ relays' = relays \cup {prompts}
  /\ cbpc' = "copyOut"
  /\ UNCHANGED << prompts, cbFailed, confirmAsked, savedState, rawMade,
                  entryMode, ptmxOpen, termMode, secretVars >>
  /\ UNCHANGED << flagVars, mainVars, walletVars, ghostVars, stdinVars >>

\* the goroutine cmd.Start() started: it copies what the program wrote to
\* its standard output into the result buffer, some bytes at a time.  Nothing
\* in the closure waits for it (there is no cmd.Wait()); what it copies after
\* the closure has read the buffer is never looked at.
ExecCopy ==
  /\ cbpc \in {"makeRaw", "goRelay", "copyOut"}
  /\ copied < Len(askOut)
  /\ \E n \in (copied + 1)..Len(askOut) : copied' = n
  /\ UNCHANGED << prompts, cbpc, cbFailed, confirmAsked, savedState, rawMade,
                  entryMode, ptmxOpen, relays, termMode, askOut, secret,
                  cbResult >>
  /\ UNCHANGED << flagVars, mainVars, walletVars, ghostVars, stdinVars >>

\* io.Copy(os.Stderr, ptmx) returns when the askpass program has closed its
\* side; r := strings.Trim(result.String(), "\n\r") reads the buffer as far
\* as it has been filled; then the closure returns and its deferred calls
\* run: Restore, Close
PtyReturn ==
  /\ cbpc = "copyOut"
  /\ secret' = Trim(SubSeq(askOut, 1, copied), NewlineAndReturn)
  /\ cbResult' = "ok"
  /\ termMode' = DeferredRestore(termMode, rawMade, savedState)
  /\ ptmxOpen' = ptmxOpen \ {prompts}
  /\ rawMade' = FALSE
  /\ cbpc' = "idle"
  /\ UNCHANGED << prompts, cbFailed, confirmAsked, savedState, entryMode,
                  relays, askOut, copied >>
  /\ UNCHANGED << flagVars, mainVars, walletVars, ghostVars, stdinVars >>

\* a panic inside the closure after pty.Start: the deferred calls run while
\* the stack unwinds, then the process dies
PtyPanic ==
  /\ cbpc \in {"makeRaw", "goRelay", "copyOut"}
  /\ termMode' = DeferredRestore(termMode, rawMade, savedState)
  /\ ptmxOpen' = ptmxOpen \ {prompts}
  /\ rawMade' = FALSE
  /\ cbpc' = "idle"
  /\ pc' = "exited"
  /\ exitCode' = ExitPanic
  /\ outcome' = "panic"
  /\ stderr' = stderr \cup {"panic"}
  /\ cbResult' = "panic"
  /\ UNCHANGED << prompts, cbFailed, confirmAsked, savedState, entryMode,
                  relays, askOut, copied, secret >>
  /\ UNCHANGED << trace, data, result, stdout >>
  /\ UNCHANGED << flagVars, walletVars, ghostVars, stdinVars >>

\* a relay goroutine's io.Copy(ptmx, os.Stdin): at end of input it returns;
\* else it takes the next keystroke and writes it to its pseudo-terminal,
\* and returns when that write fails because the pseudo-terminal is closed
\* (the keystroke is lost then; it is counted as stolen when the
\* pseudo-terminal of another prompt was open to receive it)
RelayCopy ==
  /\ pc # "exited"
  /\ \E k \in relays :
       IF stdinAtEOF THEN
         /\ relays' = relays \ {k}
         /\ UNCHANGED << keysLeft, delivered, dropped, stolen >>
       ELSE
         /\ keysLeft > 0
         /\ keysLeft' = keysLeft - 1
         /\ IF k \in ptmxOpen THEN
              /\ delivered' = delivered + 1
              /\ UNCHANGED << relays, dropped, stolen >>
            ELSE
              /\ dropped' = dropped + 1
              /\ stolen' = (IF ptmxOpen # {} THEN stolen + 1 ELSE stolen)
              /\ relays' = relays \ {k}
              /\ UNCHANGED delivered
  /\ UNCHANGED stdinAtEOF
  /\ UNCHANGED << prompts, cbpc, cbFailed, confirmAsked, savedState, rawMade,
                  entryMode, ptmxOpen, termMode, secretVars >>
  /\ UNCHANGED << flagVars, mainVars, walletVars, ghostVars >>

\* the device asks for a confirmation: the confirm callback answers
\* (false, nil), and the operation cannot succeed any more
AskConfirm ==
  /\ pc = "InDevice"
  /\ cbpc = "idle"
  /\ confirmInstalled
  /\ ~confirmAsked
  /\ confirmAsked' = TRUE
  /\ cbFailed' = TRUE
  /\ UNCHANGED << prompts, cbpc, savedState, rawMade, entryMode, ptmxOpen,
                  relays, termMode, secretVars >>
  /\ UNCHANGED << flagVars, mainVars, walletVars, ghostVars, stdinVars >>

\* the device operation returns; main checks msgType (versions 1, 2) or err
\* (version 3)
CipherReturn ==
  /\ pc = "InDevice"
  /\ cbpc = "idle"
  /\ \E deviceOk \in BOOLEAN :
       IF /\ deviceOk
          /\ ~cbFailed
          /\ prompts = deviceAsks
          /\ DeviceAccepts(devOp = "encrypt", devPayload)
       THEN
         /\ result' = DeviceResult(DerivationPath(version), devOp = "encrypt",
                                   keyNameParameter, devPayload)
         /\ pc' = After(version, "Cipher")
         /\ UNCHANGED << stderr, exitCode, outcome >>
       ELSE
         /\ pc' = "exited"
         /\ exitCode' = (IF version = 3 THEN ExitDeviceError ELSE ExitPanic)
         /\ outcome' = "deviceError"
         /\ stderr' = stderr \cup {"deviceError"}
         /\ UNCHANGED result
  /\ UNCHANGED << trace, data, stdout >>
  /\ UNCHANGED << flagVars, walletVars, ghostVars, promptVars, stdinVars >>

\* ------------------------------------------------------------- the output

\* if *encryptFlag && *hexFlag { result = []byte(hex.EncodeToString(result)) }
Encode ==
  /\ pc = "Encode"
  /\ trace' = Append(trace, "Encode")
  /\ IF encryptFlag /\ hexFlag THEN
       /\ result' = EncodeToString(result)
       /\ hexOutApplied' = TRUE
     ELSE
       UNCHANGED << result, hexOutApplied >>
  /\ pc' = After(version, "Encode")
  /\ UNCHANGED << data, stdout, stderr, exitCode, outcome >>
  /\ UNCHANGED << run, padApplied, inputValue, firstInput >>
  /\ UNCHANGED << flagVars, walletVars, promptVars, stdinVars >>

\* fmt.Print(string(result)); main returns
WriteOutput ==
  /\ pc = "Write"
  /\ trace' = Append(trace, "Write")
  /\ stdout' = stdout \o result
  /\ pc' = "exited"
  /\ exitCode' = 0
  /\ outcome' = "ok"
  /\ UNCHANGED << data, result, stderr >>
  /\ UNCHANGED << flagVars, walletVars, ghostVars, promptVars, stdinVars >>

\* the README's pipeline: the bytes an encrypt run wrote to standard output
\* are fed to a decrypt run of the same program with the same key name and the
\* same --hex setting
PipeToDecrypt ==
  /\ run = 1
  /\ pc = "exited"
  /\ outcome = "ok"
  /\ encryptFlag /\ ~decryptFlag
  /\ run' = 2
  /\ firstInput' = inputValue
  /\ encryptFlag' = FALSE
  /\ decryptFlag' = TRUE
  /\ envValue' = << >>
  /\ srcContent' = stdout
  /\ inputValueFileParameter' = StdinSentinel
  /\ askpassPathParameter' =
       (IF version = 3 /\ askpassPathParameter # CustomAskpassPath
        THEN << >> ELSE askpassPathParameter)
  /\ entryMode' = termMode
  /\ pc' = "SelectMode"
  /\ trace' = << >>
  /\ data' = << >>
  /\ result' = << >>
  /\ stdout' = << >>
  /\ stderr' = {}
  /\ exitCode' = -1
  /\ outcome' = "running"
  /\ backend' = "none"
  /\ confirmInstalled' = FALSE
  /\ resetCount' = 0
  /\ resetOk' = FALSE
  /\ cipherCalls' = 0
  /\ devOp' = "none"
  /\ devPayload' = << >>
  /\ padApplied' = FALSE
  /\ hexOutApplied' = FALSE
  /\ inputValue' = << >>
  /\ prompts' = 0
  /\ cbpc' = "idle"
  /\ cbFailed' = FALSE
  /\ confirmAsked' = FALSE
  /\ savedState' = "none"
  /\ rawMade' = FALSE
  /\ ptmxOpen' = {}
  /\ relays' = {}
  /\ askOut' = << >>
  /\ copied' = 0
  /\ secret' = << >>
  /\ cbResult' = "none"
  /\ stdinAtEOF' = FALSE
  /\ keysLeft' = MaxKeys
  /\ delivered' = 0
  /\ dropped' = 0
  /\ stolen' = 0
  /\ UNCHANGED << version, helpFlag, hexFlag, verboseFlag, usePinentryFlag,
                  dummyDeviceFlag, keyNameParameter, deviceAsks, termMode >>

Next ==
  \/ SelectMode
  \/ NewTrezor
  \/ DiscoverAskpass
  \/ ReadInput
  \/ FindWallet
  \/ InstallCallbacks
  \/ Reset
  \/ Pad
  \/ Cipher
  \/ AskSecret
  \/ PtyStart
  \/ MakeRaw
  \/ GoRelay
  \/ ExecCopy
  \/ PtyReturn
  \/ PtyPanic
  \/ RelayCopy
  \/ AskConfirm
  \/ CipherReturn
  \/ Encode
  \/ WriteOutput
  \/ PipeToDecrypt

Spec ==
  Init /\ [][Next]_vars

\* ------------------------------------------------------------- properties

\* V followed by zero bytes up to the next 16-byte boundary
ZeroFilled(v) ==
  v \o [i \in 1..((16 - (Len(v) % 16)) % 16) |-> 0]

Succeeded ==
  pc = "exited" /\ outcome = "ok"

\* C1: an encrypt run followed by a decrypt run (same key name, same --hex
\* setting) on exactly the bytes the first run wrote to standard output
\* yields the first run's input value followed by zero bytes up to the next
\* 16-byte boundary.
RoundTrip ==
  (run = 2 /\ Succeeded) => stdout = ZeroFilled(firstInput)

\* the round trip of C1 for the runs whose standard output holds no progress
\* message: every run of version 3, and the runs without --verbose of
\* versions 1 and 2
RoundTripQuiet ==
  (run = 2 /\ Succeeded /\ (version = 3 \/ ~verboseFlag)) =>
    stdout = ZeroFilled(firstInput)

RoundTripQuietWitness ==
  /\ run = 2
  /\ Succeeded
  /\ Len(firstInput) = 3
  /\ hexFlag
  /\ stdout = ZeroFilled(firstInput)

\* C2: whenever the device cipher operation has been invoked, in encrypt mode
\* as well as in decrypt mode, the payload handed to it has a length that is
\* a multiple of 16.
PayloadAlwaysAligned ==
  cipherCalls > 0 => Len(devPayload) % 16 = 0

\* C2, as amended: with --decrypt the payload handed to the device has a
\* length that is a multiple of 32 (hence of 16); without it the payload is
\* the input value as it was read, whatever its length.
PayloadAlignedOnDecrypt ==
  cipherCalls > 0 =>
    IF decryptFlag THEN Len(devPayload) % 32 = 0
                   ELSE devPayload = inputValue

PayloadAlignedOnDecryptWitness ==
  /\ cipherCalls > 0
  /\ decryptFlag
  /\ Len(inputValue) = 17
  /\ ~hexFlag
  /\ Len(devPayload) = 64

\* C3: whenever the device cipher operation has been invoked, the device
\* session reset has been performed exactly once, and successfully, before.
ResetOnceBeforeCipher ==
  cipherCalls > 0 => (resetCount = 1 /\ resetOk)

\* C4: without --hex the decrypt-side payload is the hex encoding of the raw
\* input (2L characters) followed by exactly (32 - (2L mod 32)) mod 32
\* characters "0", so that its length is a multiple of 32; an input whose hex
\* length is a multiple of 32 already, the empty one included, gets none.
DecryptNormalization ==
  (padApplied /\ ~hexFlag) =>
    LET L == Len(inputValue)
        padLen == (32 - ((2 * L) % 32)) % 32
        head == SubSeq(data, 1, 2 * L)
    IN  /\ Len(data) = 2 * L + padLen
        /\ Len(data) % 32 = 0
        /\ head = EncodeToString(inputValue)
        /\ IsHexText(head)
        /\ DecodeString(head) = inputValue
        /\ \A i \in (2 * L + 1)..Len(data) : data[i] = 48

DecryptNormalizationWitness ==
  /\ padApplied
  /\ ~hexFlag
  /\ Len(inputValue) = 17
  /\ Len(data) = 64
  /\ data[35] = 48

\* the steps the orchestrator's order is stated for
OrchestratorSteps ==
  { "SelectMode", "InstallCallbacks", "Reset", "ReadInput", "Pad", "Cipher",
    "Encode", "Write" }

RECURSIVE Project(_)
Project(t) ==
  IF t = << >> THEN << >>
  ELSE IF Head(t) \in OrchestratorSteps THEN << Head(t) >> \o Project(Tail(t))
  ELSE Project(Tail(t))

IsPrefix(a, b) ==
  /\ Len(a) <= Len(b)
  /\ SubSeq(b, 1, Len(a)) = a

PinentryAlwaysWins ==
  usePinentryFlag => outcome # "noAskpass"

\* C7: in every run that reaches the device, the decrypt-side padding is
\* applied if and only if the decrypt operation is the one invoked, and the
\* hex output encoding only if the encrypt operation is the one invoked.
ModeIsExclusive ==
  cipherCalls > 0 =>
    /\ padApplied <=> (devOp = "decrypt")
    /\ hexOutApplied => (devOp = "encrypt")

\* C8: standard output carries only the result: it holds exactly the result
\* once the run has succeeded, and nothing before that or when the run fails.
StdoutOnlyResult ==
  stdout = (IF Succeeded THEN result ELSE << >>)

\* C9: no run ends in the fatal 'len(dataHexed) is odd' assertion.
OddHexUnreachable ==
  outcome # "oddHex"

\* C10: whenever no get-secret callback is running (before the first, between
\* two, after the last, and after a panic inside one) the real terminal is in
\* the mode it had when the last callback was entered, and never in raw mode.
TerminalRestored ==
  cbpc = "idle" => (termMode = entryMode /\ termMode # "raw")

TerminalRestoredWitness ==
  /\ backend = "pty"
  /\ cbpc = "idle"
  /\ prompts = 2
  /\ savedState = "cbreak"
  /\ termMode = "cbreak"
  /\ Succeeded

\* the bytes of s with every trailing byte of the cutset removed, and nothing
\* else
RECURSIVE WithoutTrailing(_, _)
WithoutTrailing(s, cutset) ==
  IF s = << >> THEN << >>
  ELSE IF s[Len(s)] \in cutset
       THEN WithoutTrailing([ i \in 1..(Len(s) - 1) |-> s[i] ], cutset)
       ELSE s

\* C11: the secret an external-askpass backend has returned is the whole
\* standard output of the askpass program without its trailing newlines (and,
\* with the PTY relay, its trailing carriage returns): leading and interior
\* bytes are kept and no written byte is missing.
SecretIsTrimmedOutput ==
  (cbResult = "ok" /\ backend \in {"askpass", "pty"}) =>
    secret = WithoutTrailing(askOut, IF backend = "pty" THEN {10, 13} ELSE {10})

\* C12: the stdin relay of a PTY-relay prompt does not outlive its prompt: no
\* relay whose pseudo-terminal has been closed is still reading an open
\* standard input, and no keystroke typed while a prompt is open is taken and
\* dropped by the relay of an earlier prompt.
RelayEndsWithPrompt ==
  /\ ~stdinAtEOF => relays \subseteq ptmxOpen
  /\ stolen = 0

=============================================================================
